---- MODULE Spec2Model ----
(***************************************************************************)
(* A model of the credit_info service: the three tables of app/models.py,  *)
(* the CompanyRepository and CreditRepository of app/crud, the route       *)
(* handlers of app/api/routes, and the session manager of app/database.py. *)
(*                                                                         *)
(* Amounts (annual_turnover, loan_amount) are integers: thousandths of the *)
(* currency unit, one digit more than round(..., 2) keeps.  Dates are      *)
(* <<year, month, day>>.  A fiscal_year label is the sequence of its       *)
(* decimal digits and is ordered as the store orders strings.              *)
(***************************************************************************)
EXTENDS Integers, Sequences, FiniteSets, TLC

VARIABLES
    companies,   \* table companies: a set of rows
    annual,      \* table annual_information: a set of rows
    loans,       \* table loan_information: a set of rows
    last,        \* what the last repository call was given and returned
    phase,       \* where the process is in its life
    mgr,         \* the DbSessionManager class attribute and instance fields
    engines,     \* the engines created so far, each with its dispose count
    sessions,    \* the sessions the session factory has made
    reqs         \* the requests: position in the handler, tasks, response

dbvars == <<companies, annual, loans>>
srvvars == <<phase, mgr, engines, sessions, reqs>>

None == "None"

(***************************************************************************)
(* Bounds of the model.                                                    *)
(***************************************************************************)
MaxSeedCompanies == 2
MaxAnnualRows == 4
MaxLoanRows == 3

(***************************************************************************)
(* Value sets the inputs are drawn from.                                   *)
(***************************************************************************)
\* ids of the rows the store holds at startup, each from its own generate()
SeedIdOf == <<"s1", "s2", "s3", "s4">>
SeedIds == {SeedIdOf[i] : i \in 1..MaxSeedCompanies}
\* generate(alphabet=..., size=10) as evaluated once, when app/models.py is
\* imported: the scalar Company.id's insert_default holds from then on
insert_default_id == "g1"
CompanyIds == SeedIds \cup {insert_default_id}
Names == {"acme", "bolt", "core"}
Addresses == {"1 Main St", "2 Side St"}
Websites == {None, "https://acme.example/"}
RegistrationDate == <<2019, 5, 17>>
ImportDate == <<2024, 1, 1>>

\* CompanyCreate: the validated body of POST /company and PUT /company/{id}
CompanyCreate ==
    [name : Names, address : Addresses, registration_date : {RegistrationDate},
     employee_count : {10}, contact_number : {"tel:+1-202-555-0100"},
     contact_email : {"info@acme.example"}, website : Websites]

\* the bodies PUT /company/{id} is driven with
CompanyUpdate == {d \in CompanyCreate : d.address = "2 Side St"}

(***************************************************************************)
(* app/models.py                                                           *)
(***************************************************************************)
\* A mutation of Company: rows are inserted inactive.
Company_inactive(id, data) ==
    [id |-> id, name |-> data.name, address |-> data.address,
     registration_date |-> data.registration_date,
     employee_count |-> data.employee_count,
     contact_number |-> data.contact_number,
     contact_email |-> data.contact_email, website |-> data.website,
     active |-> FALSE, created_on |-> ImportDate, updated_on |-> ImportDate]

\* Company(**fields): the row the ORM inserts; active, created_on and
\* updated_on take their insert_default, the last two the import-time value.
Company(id, data) ==
    [id |-> id, name |-> data.name, address |-> data.address,
     registration_date |-> data.registration_date,
     employee_count |-> data.employee_count,
     contact_number |-> data.contact_number,
     contact_email |-> data.contact_email, website |-> data.website,
     active |-> TRUE, created_on |-> ImportDate, updated_on |-> ImportDate]

\* A mutation of CompanyConstraintsHold: name is not declared unique.
CompanyConstraintsHold_noUnique(tbl, row) ==
    /\ \A r \in tbl : r.id # row.id
    /\ row.website # None

\* The constraints the store enforces on companies with `row` added to
\* the rows `tbl`: primary key id, unique name, and every column NOT NULL.
CompanyConstraintsHold(tbl, row) ==
    /\ \A r \in tbl : r.id # row.id
    /\ \A r \in tbl : r.name # row.name
    /\ row.website # None

\* datetime.strftime(value, "%y-%m-%d"): a two-digit year
strftime(d) == <<d[1] % 100, d[2], d[3]>>

DateColumns == {"registration_date", "created_on", "updated_on", "taken_on"}

\* row2dict: column name -> value, date values formatted
row2dict(row) ==
    [c \in DOMAIN row |-> IF c \in DateColumns THEN strftime(row[c]) ELSE row[c]]

(***************************************************************************)
(* app/crud/company.py                                                     *)
(***************************************************************************)
NotFound == [ok |-> FALSE, status |-> 404, detail |-> "Company not found"]
Conflict ==
    [ok |-> FALSE, status |-> 400,
     detail |-> "Another company with same name already exists"]
\* an exception no handler of the application catches
Unhandled(exc) == [ok |-> FALSE, status |-> 500, detail |-> exc]

\* A mutation of get_company_by_id: the active filter is dropped.
get_company_by_id_anyrow(tbl, company_id) ==
    LET found == {r \in tbl : r.id = company_id}
    IN  IF found = {} THEN NotFound
        ELSE [ok |-> TRUE, row |-> CHOOSE r \in found : TRUE]

get_company_by_id(tbl, company_id) ==
    LET found == {r \in tbl : r.id = company_id /\ r.active = TRUE}
    IN  IF found = {} THEN NotFound
        ELSE [ok |-> TRUE, row |-> CHOOSE r \in found : TRUE]

get_all_companies(tbl) == tbl

\* add_company: the table after the call and what the call returns
add_company(tbl, data) ==
    LET db_company == Company(insert_default_id, data)
    IN  IF CompanyConstraintsHold(tbl, db_company)
        THEN [table |-> tbl \cup {db_company},
              result |-> [ok |-> TRUE, data |-> row2dict(db_company)]]
        ELSE [table |-> tbl, result |-> Conflict]

\* setattr(db_company, key, value) for every key of the payload
SetAttrs(row, data) ==
    [c \in DOMAIN row |-> IF c \in DOMAIN data THEN data[c] ELSE row[c]]

update_company_details(tbl, company_id, data) ==
    LET got == get_company_by_id(tbl, company_id)
    IN  IF ~got.ok THEN [table |-> tbl, result |-> got]
        ELSE LET row == SetAttrs(got.row, data)
                 rest == tbl \ {got.row}
             IN  IF CompanyConstraintsHold(rest, row)
                 THEN [table |-> rest \cup {row},
                       result |-> [ok |-> TRUE, data |-> row2dict(row)]]
                 ELSE [table |-> tbl, result |-> Unhandled("IntegrityError")]

(***************************************************************************)
(* The company repository's calls as steps on the store.                   *)
(***************************************************************************)
AddCompany ==
    \E data \in CompanyCreate :
        LET r == add_company(companies, data)
        IN  /\ companies' = r.table
            /\ last' = [op |-> "add_company", input |-> data,
                        result |-> r.result]
            /\ UNCHANGED <<annual, loans, srvvars>>

GetCompanyById ==
    \E id \in CompanyIds :
        /\ last' = [op |-> "get_company_by_id", input |-> id,
                    result |-> get_company_by_id(companies, id)]
        /\ UNCHANGED <<dbvars, srvvars>>

GetAllCompanies ==
    /\ last' = [op |-> "get_all_companies", input |-> None,
                result |-> [ok |-> TRUE, rows |-> get_all_companies(companies)]]
    /\ UNCHANGED <<dbvars, srvvars>>

UpdateCompanyDetails ==
    \E id \in CompanyIds, data \in CompanyUpdate :
        LET r == update_company_details(companies, id, data)
        IN  /\ companies' = r.table
            /\ last' = [op |-> "update_company_details", input |-> data,
                        id |-> id, result |-> r.result]
            /\ UNCHANGED <<annual, loans, srvvars>>

\* The rows a store can hold when the process starts: seeded or left by an
\* earlier run, ids and names unique, active or soft-deleted.
SeedCompany(id, name, active) ==
    [Company(id, [name |-> name, address |-> "1 Main St",
                  registration_date |-> RegistrationDate,
                  employee_count |-> 10,
                  contact_number |-> "tel:+1-202-555-0100",
                  contact_email |-> "info@acme.example",
                  website |-> "https://acme.example/"])
     EXCEPT !.active = active]

SeedCompanyTables ==
    LET choice == [SeedIds -> {None} \cup (Names \X BOOLEAN)]
        rows(f) == {SeedCompany(id, f[id][1], f[id][2]) :
                        id \in {i \in SeedIds : f[i] # None}}
    IN  {rows(f) : f \in {g \in choice :
            \A i, j \in SeedIds :
                (g[i] # None /\ g[j] # None /\ i # j) => g[i][1] # g[j][1]}}

NoCall == [op |-> "none"]

\* The repository specifications leave the process aside: nothing imported,
\* no engine, no session, no request.
NoManager == [instance |-> FALSE, engine |-> 0, sessionmaker |-> 0]

ProcessNotStarted ==
    /\ phase = "start"
    /\ mgr = NoManager
    /\ engines = <<>>
    /\ sessions = <<>>
    /\ reqs = <<>>

Init ==
    /\ ProcessNotStarted
    /\ companies \in SeedCompanyTables
    /\ annual = {}
    /\ loans = {}
    /\ last = NoCall

Next ==
    \/ AddCompany
    \/ GetCompanyById
    \/ GetAllCompanies
    \/ UpdateCompanyDetails

vars == <<companies, annual, loans, last, phase, mgr, engines, sessions, reqs>>

Spec == Init /\ [][Next]_vars

(***************************************************************************)
(* Properties of the company repository, checked under Spec.               *)
(***************************************************************************)
StoredNames(tbl) == {r.name : r \in tbl}

\* C1: whenever add_company has just succeeded, get_company_by_id of the id
\* it returned succeeds and gives an active row whose name, address,
\* registration_date, employee_count, contact_number, contact_email and
\* website are the values the call was given.
C1_AddedCompanyIsReadBack ==
    (last.op = "add_company" /\ last.result.ok) =>
        LET got == get_company_by_id(companies, last.result.data.id)
        IN  /\ got.ok
            /\ got.row.active = TRUE
            /\ \A f \in DOMAIN last.input : got.row[f] = last.input[f]

\* C1 witness: add_company succeeded on a store that already held two rows.
C1_Witness ==
    /\ last.op = "add_company"
    /\ last.result.ok
    /\ Cardinality(companies) = 3
    /\ last.input.address = "2 Side St"

\* C2: every add_company whose name no stored row bears succeeds and
\* inserts one new row, and stored rows keep pairwise distinct ids.  Stated
\* for the payloads that carry a website, where only the generated id can
\* stand in the way (a payload without one fails on the NOT NULL column).
C2_FreshNameIsInserted ==
    [][(/\ last'.op = "add_company"
        /\ last'.input.name \notin StoredNames(companies)
        /\ last'.input.website # None)
          => /\ last'.result.ok
             /\ companies \subseteq companies'
             /\ Cardinality(companies') = Cardinality(companies) + 1
             /\ \A r1, r2 \in companies' : r1.id = r2.id => r1 = r2]_vars

\* C3: add_company with the name of a stored row, active or not, whatever
\* its other fields, fails with the Conflict error (400, the generic
\* message) and leaves the stored company rows as they were.
C3_DuplicateNameIsConflict ==
    [][(last'.op = "add_company" /\ last'.input.name \in StoredNames(companies))
          => /\ last'.result = Conflict
             /\ last'.result.status = 400
             /\ companies' = companies]_vars

\* C3 witness: a Conflict for the name of an inactive row that differs from
\* the payload in its other fields, with the generated id still free.
C3_Witness ==
    /\ last.op = "add_company"
    /\ last.result = Conflict
    /\ \A r \in companies : r.id # insert_default_id
    /\ \E r \in companies :
        /\ r.name = last.input.name
        /\ r.active = FALSE
        /\ r.address # last.input.address

\* C12: get_all_companies returns every stored company row, active and
\* inactive alike; get_company_by_id(id) succeeds exactly when a stored row
\* has that id and active = true, and then returns that row; otherwise (id
\* unknown, or its row inactive) it fails with 404 "Company not found";
\* neither call changes a stored row.
C12_ReadsAndTheActiveFilter ==
    [][/\ last'.op = "get_all_companies" =>
            /\ last'.result.rows = companies
            /\ companies' = companies
       /\ last'.op = "get_company_by_id" =>
            /\ companies' = companies
            /\ last'.result.ok <=>
                   \E r \in companies : r.id = last'.input /\ r.active = TRUE
            /\ last'.result.ok =>
                   /\ last'.result.row \in companies
                   /\ last'.result.row.id = last'.input
                   /\ last'.result.row.active = TRUE
            /\ ~last'.result.ok => last'.result = NotFound]_vars

\* C12 witness: get_company_by_id has just failed with 404 on the id of a
\* stored, inactive row, in a store that also holds an active row.
C12_Witness ==
    /\ last.op = "get_company_by_id"
    /\ last.result = NotFound
    /\ \E r \in companies : r.id = last.input /\ r.active = FALSE
    /\ \E r \in companies : r.active = TRUE

(***************************************************************************)
(* annual_information and the turnover queries of app/crud/credit.py       *)
(***************************************************************************)
\* fiscal_year labels, f"{year}" as create_dummy_data writes them
FiscalYears == {<<2, 0, 2, 0>>, <<2, 0, 2, 1>>, <<2, 0, 2, 2>>}
Turnovers == {50, 200}
TurnoverCompanies == {"s1", "s2"}
QueriedIds == {"s1", "s2", "g1"}

\* the year a label names
YearOf(label) == label[1] * 1000 + label[2] * 100 + label[3] * 10 + label[4]

\* string order of the store: character by character, a proper prefix first
RECURSIVE StrLess(_, _)
StrLess(a, b) ==
    IF b = <<>> THEN FALSE
    ELSE IF a = <<>> THEN TRUE
    ELSE IF Head(a) # Head(b) THEN Head(a) < Head(b)
    ELSE StrLess(Tail(a), Tail(b))

AnnualInformation(id, company_id, fiscal_year, annual_turnover) ==
    [id |-> id, annual_turnover |-> annual_turnover, profit |-> 10,
     fiscal_year |-> fiscal_year,
     reported_date |-> <<YearOf(fiscal_year) + 1, 3, 20>>,
     company_id |-> company_id, active |-> TRUE,
     created_on |-> ImportDate, updated_on |-> ImportDate]

Min(a, b) == IF a <= b THEN a ELSE b

\* A mutation of OrderByFiscalYearDesc: ascending order.
RECURSIVE OrderByFiscalYearAsc(_)
OrderByFiscalYearAsc(rows) ==
    IF rows = {} THEN {<<>>}
    ELSE LET first == {r \in rows : \A u \in rows :
                          ~StrLess(u.fiscal_year, r.fiscal_year)}
         IN  UNION {{<<r>> \o o : o \in OrderByFiscalYearAsc(rows \ {r})} :
                       r \in first}

\* ORDER BY fiscal_year DESC: the orders the store may return `rows` in; rows
\* of equal fiscal_year come in any order
RECURSIVE OrderByFiscalYearDesc(_)
OrderByFiscalYearDesc(rows) ==
    IF rows = {} THEN {<<>>}
    ELSE LET first == {r \in rows : \A u \in rows :
                          ~StrLess(r.fiscal_year, u.fiscal_year)}
         IN  UNION {{<<r>> \o o : o \in OrderByFiscalYearDesc(rows \ {r})} :
                       r \in first}

\* LIMIT n
Limit(o, n) == SubSeq(o, 1, Min(n, Len(o)))

RECURSIVE SeqSum(_)
SeqSum(q) == IF q = <<>> THEN 0 ELSE Head(q) + SeqSum(Tail(q))

\* func.sum over a column, a scalar the ORM hands over as <<value>>, or as
\* <<>> for the NULL that the sum over no row is
SqlSum(q) == IF q = <<>> THEN <<>> ELSE <<SeqSum(q)>>

\* `x if x else 0.0`: None and 0 are both falsy
OrZero(x) == IF x = <<>> THEN 0 ELSE IF x[1] = 0 THEN 0 ELSE x[1]

\* get_company_two_year_turnover: the values the call may return
get_company_two_year_turnover(tbl, company_id) ==
    LET rows == {r \in tbl : r.company_id = company_id}
        two_years_turnover(o) ==
            [i \in DOMAIN Limit(o, 2) |-> Limit(o, 2)[i].annual_turnover]
    IN  {OrZero(SqlSum(two_years_turnover(o))) : o \in OrderByFiscalYearDesc(rows)}

\* the elements of a list
Range(q) == {q[i] : i \in DOMAIN q}

\* row_number() over the order `o`: each row's place in it
RowNumber(o) == [r \in Range(o) |-> CHOOSE i \in DOMAIN o : o[i] = r]

\* A mutation of RankedRows: row_number() is not partitioned by company_id.
RankedRows_noPartition(tbl, company_ids) ==
    LET rows == {r \in tbl : r.company_id \in Range(company_ids)}
    IN  {RowNumber(o) : o \in OrderByFiscalYearDesc(rows)}

\* the rankings of the rows of the companies `parts`, each company's rows
\* numbered on their own
RECURSIVE PartitionedRanks(_, _)
PartitionedRanks(rows, parts) ==
    IF parts = {} THEN {<<>>}
    ELSE LET c == CHOOSE x \in parts : TRUE
             own == {RowNumber(o) :
                        o \in OrderByFiscalYearDesc({r \in rows : r.company_id = c})}
         IN  {f @@ g : f \in own, g \in PartitionedRanks(rows, parts \ {c})}

\* The subquery of get_two_year_turnover_of_companies: the rows whose
\* company_id is IN company_ids, each with row_number() over (partition by
\* company_id order by fiscal_year desc).  The rankings the store may give.
RankedRows(tbl, company_ids) ==
    LET rows == {r \in tbl : r.company_id \in Range(company_ids)}
    IN  PartitionedRanks(rows, {r.company_id : r \in rows})

RECURSIVE SetSum(_)
SetSum(rows) ==
    IF rows = {} THEN 0
    ELSE LET r == CHOOSE x \in rows : TRUE
         IN  r.annual_turnover + SetSum(rows \ {r})

\* get_two_year_turnover_of_companies: the mappings the call may return
get_two_year_turnover_of_companies(tbl, company_ids) ==
    {LET kept == {r \in DOMAIN rank : rank[r] <= 2}
         groups == {r.company_id : r \in kept}
     IN  [c \in groups |-> SetSum({r \in kept : r.company_id = c})] :
        rank \in RankedRows(tbl, company_ids)}

GetCompanyTwoYearTurnover ==
    \E id \in QueriedIds :
        \E v \in get_company_two_year_turnover(annual, id) :
            /\ last' = [op |-> "get_company_two_year_turnover",
                        input |-> id, result |-> v]
            /\ UNCHANGED <<dbvars, srvvars>>

\* the lists of ids the batch queries are driven with
IdLists == {<<>>} \cup {<<a>> : a \in QueriedIds}
               \cup {<<a, b>> : a, b \in QueriedIds}

GetTwoYearTurnoverOfCompanies ==
    \E ids \in IdLists :
        \E m \in get_two_year_turnover_of_companies(annual, ids) :
            /\ last' = [op |-> "get_two_year_turnover_of_companies",
                        input |-> ids, result |-> m]
            /\ UNCHANGED <<dbvars, srvvars>>

\* The tables annual_information can hold: no constraint but the primary
\* key, so a company may have several rows of one fiscal_year.  Rows are
\* numbered in a fixed order of their contents.
AnnualKinds == TurnoverCompanies \X FiscalYears \X Turnovers

KindKey(k) ==
    (IF k[1] = "s1" THEN 0 ELSE 100000) + YearOf(k[2]) * 10
        + (IF k[3] = 50 THEN 1 ELSE 2)

AnnualTables ==
    UNION {{{AnnualInformation(i, f[i][1], f[i][2], f[i][3]) : i \in 1..n} :
               f \in {g \in [1..n -> AnnualKinds] :
                         \A i \in 1..(n - 1) : KindKey(g[i]) <= KindKey(g[i + 1])}} :
           n \in 0..MaxAnnualRows}

InitTurnover ==
    /\ ProcessNotStarted
    /\ companies = {}
    /\ annual \in AnnualTables
    /\ loans = {}
    /\ last = NoCall

NextTurnover ==
    \/ GetCompanyTwoYearTurnover
    \/ GetTwoYearTurnoverOfCompanies

SpecTurnover == InitTurnover /\ [][NextTurnover]_vars

(***************************************************************************)
(* Properties of the turnover queries, checked under SpecTurnover.         *)
(***************************************************************************)
RowsOf(tbl, company_id) == {r \in tbl : r.company_id = company_id}

\* the (at most two) most recent fiscal years among `rows`
TwoMostRecentYears(rows) ==
    LET years == {YearOf(r.fiscal_year) : r \in rows}
    IN  {y \in years : Cardinality({z \in years : z > y}) < 2}

\* the turnover of the two most recent fiscal years of `rows`
TwoYearSum(rows) ==
    SetSum({r \in rows : YearOf(r.fiscal_year) \in TwoMostRecentYears(rows)})

OneRowPerFiscalYear(rows) ==
    \A r1, r2 \in rows : r1.fiscal_year = r2.fiscal_year => r1 = r2

ExpectedKeys(tbl, company_ids) ==
    {c \in Range(company_ids) : RowsOf(tbl, c) # {}}

LoanStatuses == {"PAID", "DUE", "INITIATED"}
LoanAmounts == {0, 80}

LoanInformation(id, company_id, loan_amount, loan_status, active) ==
    [id |-> id, loan_amount |-> loan_amount, taken_on |-> <<2021, 7, 1>>,
     bank_provider |-> "First Bank", loan_status |-> loan_status,
     company_id |-> company_id, active |-> active,
     created_on |-> ImportDate, updated_on |-> ImportDate]

RECURSIVE SumLoanAmount(_)
\* func.sum(LoanInformation.loan_amount) over the rows selected
SumLoanAmount(rows) ==
    IF rows = {} THEN <<>>
    ELSE LET r == CHOOSE x \in rows : TRUE
             rest == SumLoanAmount(rows \ {r})
         IN  <<r.loan_amount + (IF rest = <<>> THEN 0 ELSE rest[1])>>

\* A mutation of DueLoansOf: the loan_status condition is dropped.
DueLoansOf_anyStatus(tbl, company_id) ==
    {r \in tbl : r.company_id = company_id}

\* WHERE company_id = :company_id AND loan_status = 'DUE'
DueLoansOf(tbl, company_id) ==
    {r \in tbl : r.company_id = company_id /\ r.loan_status = "DUE"}

get_total_due_loan_amount(tbl, company_id) ==
    OrZero(SumLoanAmount(DueLoansOf(tbl, company_id)))

\* WHERE company_id IN company_ids AND loan_status = 'DUE' GROUP BY company_id
get_total_due_amount_of_companies(tbl, company_ids) ==
    LET groups == {c \in Range(company_ids) : DueLoansOf(tbl, c) # {}}
    IN  [c \in groups |-> SumLoanAmount(DueLoansOf(tbl, c))[1]]

GetTotalDueLoanAmount ==
    \E id \in QueriedIds :
        /\ last' = [op |-> "get_total_due_loan_amount", input |-> id,
                    result |-> get_total_due_loan_amount(loans, id)]
        /\ UNCHANGED <<dbvars, srvvars>>

GetTotalDueAmountOfCompanies ==
    \E ids \in IdLists :
        /\ last' = [op |-> "get_total_due_amount_of_companies", input |-> ids,
                    result |-> get_total_due_amount_of_companies(loans, ids)]
        /\ UNCHANGED <<dbvars, srvvars>>

\* The tables loan_information can hold, rows numbered in a fixed order of
\* their contents: loans of any status, active or soft-deleted.
LoanKinds == TurnoverCompanies \X LoanAmounts \X LoanStatuses \X BOOLEAN

LoanKindKey(k) ==
    (IF k[1] = "s1" THEN 0 ELSE 1000) + k[2]
        + (IF k[3] = "PAID" THEN 100 ELSE IF k[3] = "DUE" THEN 200 ELSE 300)
        + (IF k[4] THEN 400 ELSE 0)

LoanTables ==
    UNION {{{LoanInformation(i, f[i][1], f[i][2], f[i][3], f[i][4]) : i \in 1..n} :
               f \in {g \in [1..n -> LoanKinds] :
                         \A i \in 1..(n - 1) :
                             LoanKindKey(g[i]) <= LoanKindKey(g[i + 1])}} :
           n \in 0..MaxLoanRows}

InitDue ==
    /\ ProcessNotStarted
    /\ companies = {}
    /\ annual = {}
    /\ loans \in LoanTables
    /\ last = NoCall

NextDue ==
    \/ GetTotalDueLoanAmount
    \/ GetTotalDueAmountOfCompanies

SpecDue == InitDue /\ [][NextDue]_vars

(***************************************************************************)
(* Properties of the due-amount queries, checked under SpecDue.            *)
(***************************************************************************)
\* the sum of loan_amount over the loans of `company_id` that are DUE
RECURSIVE DueTotal(_, _)
DueTotal(tbl, company_id) ==
    IF \A r \in tbl : ~(r.company_id = company_id /\ r.loan_status = "DUE")
    THEN 0
    ELSE LET r == CHOOSE x \in tbl :
                      x.company_id = company_id /\ x.loan_status = "DUE"
         IN  r.loan_amount + DueTotal(tbl \ {r}, company_id)

HasDueLoan(tbl, company_id) ==
    \E r \in tbl : r.company_id = company_id /\ r.loan_status = "DUE"

\* C10: get_total_due_loan_amount returns the sum of loan_amount over the
\* company's DUE loans (0.0 when there is none; PAID and INITIATED loans and
\* other companies' loans never contribute), and
\* get_total_due_amount_of_companies maps each listed id with a DUE loan to
\* that sum and has no other key.
C10_DueAmounts ==
    /\ last.op = "get_total_due_loan_amount" =>
           last.result = DueTotal(loans, last.input)
    /\ last.op = "get_total_due_amount_of_companies" =>
        /\ DOMAIN last.result =
               {c \in Range(last.input) : HasDueLoan(loans, c)}
        /\ \A c \in DOMAIN last.result :
            /\ last.result[c] = DueTotal(loans, c)
            /\ last.result[c] = get_total_due_loan_amount(loans, c)

\* C10 witness: a batch over two ids, one with a DUE and a PAID loan of the
\* same amount and one with no DUE loan, while a company outside the list
\* has a DUE loan.
C10_Witness ==
    /\ last.op = "get_total_due_amount_of_companies"
    /\ Len(last.input) = 2
    /\ Cardinality(DOMAIN last.result) = 1
    /\ \E c \in DOMAIN last.result :
        /\ last.result[c] = 80
        /\ \E r \in loans :
               r.company_id = c /\ r.loan_status = "PAID" /\ r.loan_amount = 80
    /\ \E r \in loans :
           r.company_id \notin Range(last.input) /\ r.loan_status = "DUE"

(***************************************************************************)
(* The process: app/database.py, app/server.py, app/dummy_data.py and the  *)
(* two read paths of app/api/routes/credit.py, one step per await.         *)
(***************************************************************************)
MaxRequests == 2
Requests == 1..MaxRequests

\* A mutation of round2: the third decimal is cut off.
round2_truncate(x) == (x \div 10) * 10

\* round(x, 2) on thousandths: to the nearest hundredth, a tie to the even one
round2(x) ==
    LET q == x \div 10
        r == x % 10
    IN  IF r < 5 THEN q * 10
        ELSE IF r > 5 THEN (q + 1) * 10
        ELSE IF q % 2 = 0 THEN q * 10 ELSE (q + 1) * 10

\* DbSessionManager(host): __new__ hands back the one instance, creating it
\* when the class has none, and __init__ then runs on it: a new engine and
\* a new session factory bound to it.
DbSessionManager(m, es) ==
    [mgr |-> [instance |-> TRUE, engine |-> Len(es) + 1,
              sessionmaker |-> Len(es) + 1],
     engines |-> Append(es, [disposed |-> 0])]

\* A mutation of SessionExit: close() sits in an else branch, not in finally.
SessionExit_closeUnlessRaised(raised) ==
    IF raised THEN <<"rollback">> ELSE <<"close">>

\* DbSessionManager.session after the yield: what is awaited on the session,
\* in order, when the body raised an Exception and when it did not
SessionExit(raised) ==
    IF raised THEN <<"rollback", "close">> ELSE <<"close">>

\* self._sessionmaker(): a new session on the factory's engine
NewSession(owner) ==
    [engine |-> mgr.sessionmaker, owner |-> owner, log |-> <<>>, inflight |-> 0]

TaskIdle == [st |-> "idle"]
TaskRunning == [st |-> "running"]
\* what gather(..., return_exceptions=True) hands back for a task that raised
TaskError == [st |-> "err", exc |-> "DBAPIError"]
TaskValue(v) == [st |-> "ok", val |-> v]
Finished(t) == t.st \in {"ok", "err"}

NoResponse == [status |-> 0]
IdleRequest ==
    [pc |-> "idle", call |-> [ep |-> "none", company_id |-> None], sid |-> 0,
     t1 |-> TaskIdle, t2 |-> TaskIdle, failed |-> FALSE,
     resp |-> NoResponse, usedError |-> FALSE, exit |-> <<>>]

\* the requests the read paths are driven with; "s2" is no stored company
EndpointCalls ==
    {[ep |-> "credits_all", company_id |-> None]}
        \cup {[ep |-> "credits_one", company_id |-> c] : c \in {"s1", "s2"}}

\* what a handler sends, or the exception that leaves it
Response(status, data) == [status |-> status, exc |-> None, data |-> data]
Raised(status, exc) == [status |-> status, exc |-> exc, data |-> None]

\* GET /credits/{company_id} after the gather: `two_year_turnover -
\* total_due_amount` with an exception object as an operand is a TypeError
credit_info_of_a_company(company_info, company_id, two_year_turnover, total_due_amount) ==
    IF two_year_turnover.st = "err" \/ total_due_amount.st = "err"
    THEN [resp |-> Raised(500, "TypeError"), usedError |-> TRUE]
    ELSE [resp |-> Response(200,
                      [company_id |-> company_id,
                       company_name |-> company_info.name,
                       credit_information |->
                           round2(two_year_turnover.val - total_due_amount.val)]),
          usedError |-> FALSE]

\* mapping.get(key, 0)
DictGet(mapping, key) == IF key \in DOMAIN mapping THEN mapping[key] ELSE 0

\* GET /credits after the gather: `.get` on an exception object is an
\* AttributeError, met at the first company of the loop; with no company the
\* loop body never runs
credit_info_of_all_company(company_rows, companies_turnover, companies_due_amount) ==
    IF company_rows = {}
    THEN [resp |-> Response(200, {}), usedError |-> FALSE]
    ELSE IF companies_turnover.st = "err" \/ companies_due_amount.st = "err"
    THEN [resp |-> Raised(500, "AttributeError"), usedError |-> TRUE]
    ELSE [resp |-> Response(200,
                      {[company_id |-> c.id, company_name |-> c.name,
                        credit_information |->
                            round2(DictGet(companies_turnover.val, c.id)
                                   - DictGet(companies_due_amount.val, c.id))] :
                          c \in company_rows}),
          usedError |-> FALSE]

\* [company.id for company in companies]
IdListOf(rows) ==
    LET ids == {r.id : r \in rows}
    IN  CHOOSE q \in [1..Cardinality(ids) -> ids] : Range(q) = ids

\* the values the first and the second query of a request's gather may give
FirstQueryValues(call) ==
    IF call.ep = "credits_one"
    THEN get_company_two_year_turnover(annual, call.company_id)
    ELSE get_two_year_turnover_of_companies(annual, IdListOf(companies))

SecondQueryValues(call) ==
    IF call.ep = "credits_one"
    THEN {get_total_due_loan_amount(loans, call.company_id)}
    ELSE {get_total_due_amount_of_companies(loans, IdListOf(companies))}

\* `import app.database`: the module-level DbSessionManager(DATABASE_URL)
ImportDatabase ==
    /\ phase = "start"
    /\ LET made == DbSessionManager(mgr, engines)
       IN  mgr' = made.mgr /\ engines' = made.engines
    /\ phase' = "imported"
    /\ UNCHANGED <<dbvars, last, sessions, reqs>>

\* lifespan: init_db() constructs DbSessionManager(DATABASE_URL) again and
\* creates the tables over a connection of its engine
InitDb ==
    /\ phase = "imported"
    /\ LET made == DbSessionManager(mgr, engines)
       IN  mgr' = made.mgr /\ engines' = made.engines
    /\ phase' = "tables"
    /\ UNCHANGED <<dbvars, last, sessions, reqs>>

\* lifespan: create_dummy_data() in a session of its own, then
\* setup_routes().  One company stands for the ten, with one draw of the
\* random turnovers and of the random loans.
CreateDummyData ==
    /\ phase = "tables"
    /\ mgr.sessionmaker # 0
    /\ companies' = companies \cup {SeedCompany("s1", "acme", TRUE)}
    /\ annual' = annual \cup
           {AnnualInformation(1, "s1", <<2, 0, 2, 0>>, 100),
            AnnualInformation(2, "s1", <<2, 0, 2, 1>>, 200),
            AnnualInformation(3, "s1", <<2, 0, 2, 2>>, 50)}
    /\ loans' = loans \cup {LoanInformation(1, "s1", 80, "DUE", TRUE)}
    /\ sessions' = Append(sessions, [NewSession(0) EXCEPT !.log = SessionExit(FALSE)])
    /\ phase' = "serving"
    /\ UNCHANGED <<last, mgr, engines, reqs>>

\* A request arrives: get_db_session enters sessionmanager.session(), which
\* raises when there is no session factory and else yields a new session.
\* Requests are numbered in the order they arrive.
Arrive(r) ==
    /\ phase = "serving"
    /\ reqs[r].pc = "idle"
    /\ \A q \in Requests : q < r => reqs[q].pc # "idle"
    /\ \E call \in EndpointCalls :
        IF mgr.sessionmaker = 0
        THEN /\ reqs' = [reqs EXCEPT ![r] =
                    [@ EXCEPT !.pc = "done", !.call = call,
                              !.resp = Raised(500, "Exception")]]
             /\ UNCHANGED sessions
        ELSE /\ sessions' = Append(sessions, NewSession(r))
             /\ reqs' = [reqs EXCEPT ![r] =
                    [@ EXCEPT !.pc = "handler", !.call = call,
                              !.sid = Len(sessions) + 1]]
    /\ UNCHANGED <<dbvars, last, phase, mgr, engines>>

\* the handler ends, its locals with it: the session's context manager takes
\* over.  `failed` keeps whether the gather handed it an error object.
EndHandler(req, resp, usedError) ==
    [req EXCEPT !.pc = "exit", !.resp = resp, !.usedError = usedError,
                !.failed = (req.t1.st = "err" \/ req.t2.st = "err"),
                !.t1 = TaskIdle, !.t2 = TaskIdle,
                !.exit = SessionExit(resp.status # 200)]

\* the handler's first await: get_all_companies, or get_company_by_id, which
\* raises HTTPException(404)
FirstAwait(r) ==
    /\ reqs[r].pc = "handler"
    /\ LET call == reqs[r].call
           got == get_company_by_id(companies, call.company_id)
       IN  IF call.ep = "credits_one" /\ ~got.ok
           THEN reqs' = [reqs EXCEPT ![r] =
                    EndHandler(@, Raised(got.status, "HTTPException"), FALSE)]
           ELSE reqs' = [reqs EXCEPT ![r] = [@ EXCEPT !.pc = "gather"]]
    /\ UNCHANGED <<dbvars, last, phase, mgr, engines, sessions>>

\* asyncio.gather: the first coroutine runs up to its await of the store
StartFirstQuery(r) ==
    /\ reqs[r].pc = "gather"
    /\ reqs[r].t1 = TaskIdle
    /\ reqs' = [reqs EXCEPT ![r] = [@ EXCEPT !.t1 = TaskRunning]]
    /\ sessions' = [sessions EXCEPT ![reqs[r].sid] =
                       [@ EXCEPT !.inflight = @ + 1]]
    /\ UNCHANGED <<dbvars, last, phase, mgr, engines>>

\* the second coroutine runs next, on the same session, while the first
\* waits for the store
StartSecondQuery(r) ==
    /\ reqs[r].pc = "gather"
    /\ reqs[r].t1 = TaskRunning
    /\ reqs[r].t2 = TaskIdle
    /\ reqs' = [reqs EXCEPT ![r] = [@ EXCEPT !.t2 = TaskRunning]]
    /\ sessions' = [sessions EXCEPT ![reqs[r].sid] =
                       [@ EXCEPT !.inflight = @ + 1]]
    /\ UNCHANGED <<dbvars, last, phase, mgr, engines>>

\* a query comes back with its value, or raises what the store or the
\* driver raised
FinishFirstQuery(r) ==
    /\ reqs[r].pc = "gather"
    /\ reqs[r].t1 = TaskRunning
    /\ reqs[r].t2 # TaskIdle
    /\ \E res \in {TaskError} \cup {TaskValue(v) : v \in FirstQueryValues(reqs[r].call)} :
        reqs' = [reqs EXCEPT ![r] = [@ EXCEPT !.t1 = res]]
    /\ sessions' = [sessions EXCEPT ![reqs[r].sid] =
                       [@ EXCEPT !.inflight = @ - 1]]
    /\ UNCHANGED <<dbvars, last, phase, mgr, engines>>

FinishSecondQuery(r) ==
    /\ reqs[r].pc = "gather"
    /\ reqs[r].t2 = TaskRunning
    /\ \E res \in {TaskError} \cup {TaskValue(v) : v \in SecondQueryValues(reqs[r].call)} :
        reqs' = [reqs EXCEPT ![r] = [@ EXCEPT !.t2 = res]]
    /\ sessions' = [sessions EXCEPT ![reqs[r].sid] =
                       [@ EXCEPT !.inflight = @ - 1]]
    /\ UNCHANGED <<dbvars, last, phase, mgr, engines>>

\* the gather returns the pair and the handler builds its response from it
Join(r) ==
    /\ reqs[r].pc = "gather"
    /\ Finished(reqs[r].t1)
    /\ Finished(reqs[r].t2)
    /\ LET req == reqs[r]
           out == IF req.call.ep = "credits_one"
                  THEN credit_info_of_a_company(
                           get_company_by_id(companies, req.call.company_id).row,
                           req.call.company_id, req.t1, req.t2)
                  ELSE credit_info_of_all_company(
                           get_all_companies(companies), req.t1, req.t2)
       IN  reqs' = [reqs EXCEPT ![r] = EndHandler(@, out.resp, out.usedError)]
    /\ UNCHANGED <<dbvars, last, phase, mgr, engines, sessions>>

\* the session's context manager awaits its next call on the session; after
\* the last one the request is over
ExitSession(r) ==
    /\ reqs[r].pc = "exit"
    /\ reqs[r].exit # <<>>
    /\ sessions' = [sessions EXCEPT ![reqs[r].sid] =
                       [@ EXCEPT !.log = Append(@, Head(reqs[r].exit))]]
    /\ reqs' = [reqs EXCEPT ![r] =
                   [@ EXCEPT !.exit = Tail(@),
                             !.pc = IF Tail(reqs[r].exit) = <<>>
                                    THEN "done" ELSE "exit"]]
    /\ UNCHANGED <<dbvars, last, phase, mgr, engines>>

\* lifespan after the yield, once the requests in flight have ended:
\* sessionmanager.close() when it still has an engine
Shutdown ==
    /\ phase = "serving"
    /\ \A r \in Requests : reqs[r].pc \in {"idle", "done"}
    /\ IF mgr.engine # 0
       THEN /\ engines' = [engines EXCEPT ![mgr.engine] =
                              [@ EXCEPT !.disposed = @ + 1]]
            /\ mgr' = [mgr EXCEPT !.engine = 0, !.sessionmaker = 0]
       ELSE UNCHANGED <<engines, mgr>>
    /\ phase' = "stopped"
    /\ UNCHANGED <<dbvars, last, sessions, reqs>>

RequestStep(r) ==
    \/ FirstAwait(r)
    \/ StartFirstQuery(r)
    \/ StartSecondQuery(r)
    \/ FinishFirstQuery(r)
    \/ FinishSecondQuery(r)
    \/ Join(r)
    \/ ExitSession(r)

InitServer ==
    /\ companies = {}
    /\ annual = {}
    /\ loans = {}
    /\ last = NoCall
    /\ phase = "start"
    /\ mgr = NoManager
    /\ engines = <<>>
    /\ sessions = <<>>
    /\ reqs = [r \in Requests |-> IdleRequest]

NextServer ==
    \/ ImportDatabase
    \/ InitDb
    \/ CreateDummyData
    \/ \E r \in Requests : Arrive(r)
    \/ \E r \in Requests : RequestStep(r)
    \/ Shutdown

SpecServer == InitServer /\ [][NextServer]_vars

\* the event loop runs every coroutine that can take its next step
SpecServerFair ==
    SpecServer /\ \A r \in Requests : WF_vars(RequestStep(r))

(***************************************************************************)
(* Properties of the process, checked under SpecServer and SpecServerFair. *)
(***************************************************************************)
HandlerEnded(req) == req.pc \in {"exit", "done"}
HandlerRaised(req) == HandlerEnded(req) /\ req.resp.status # 200

\* C4: when one of the two gathered queries has failed, the gather still
\* delivers both results (the handler goes on past it), and the handler
\* surfaces the failure itself (an error response it raises, or a response
\* with the failed value counted as zero) without using the error object as
\* a number or as a mapping.
C4_GatherFailureIsHandled ==
    \A r \in DOMAIN reqs :
        (HandlerEnded(reqs[r]) /\ reqs[r].failed) =>
            /\ ~reqs[r].usedError
            /\ reqs[r].resp.exc \in {None, "HTTPException"}

Closes(log) == Cardinality({i \in DOMAIN log : log[i] = "close"})

\* what C5 asks of a session at every moment: closed at most once, nothing
\* awaited on it after the close, rolled back just before the close when its
\* handler raised and not otherwise, and closed once its request has ended
SessionReleasedProperly(sid) ==
    LET s == sessions[sid]
        req == reqs[s.owner]
    IN  /\ Closes(s.log) <= 1
        /\ Closes(s.log) = 1 => s.log[Len(s.log)] = "close"
        /\ (Closes(s.log) = 1 /\ HandlerRaised(req)) => s.log = <<"rollback", "close">>
        /\ (Closes(s.log) = 1 /\ ~HandlerRaised(req)) => s.log = <<"close">>
        /\ req.pc = "done" => Closes(s.log) = 1

SessionOpen(r) == reqs[r].sid # 0 /\ Closes(sessions[reqs[r].sid].log) = 0
SessionClosed(r) == reqs[r].sid # 0 /\ Closes(sessions[reqs[r].sid].log) = 1

\* C5: in every interleaving of the requests, the session checked out for a
\* request is eventually closed, exactly once, whether its handler completes
\* or raises; when the handler raises it is rolled back before it is closed;
\* no session is open after its request has ended.
C5_SessionIsReleased ==
    /\ [](\A sid \in DOMAIN sessions :
              sessions[sid].owner # 0 => SessionReleasedProperly(sid))
    /\ \A r \in Requests : SessionOpen(r) ~> SessionClosed(r)

\* C5 witness: two requests have ended with their sessions closed, one whose
\* handler raised and one whose handler completed, the second checked out
\* while the first was not yet closed.
C5_Witness ==
    /\ \A r \in {1, 2} : reqs[r].pc = "done" /\ SessionClosed(r)
    /\ \E r \in {1, 2} : HandlerRaised(reqs[r]) /\ reqs[r].usedError
    /\ \E r \in {1, 2} : ~HandlerRaised(reqs[r])
    /\ sessions[reqs[1].sid].log # sessions[reqs[2].sid].log

\* C6: no session is used by two requests, and no session ever has two
\* database operations in flight.
C6_SessionIsExclusive ==
    /\ \A r1, r2 \in DOMAIN reqs :
           (reqs[r1].sid # 0 /\ reqs[r1].sid = reqs[r2].sid) => r1 = r2
    /\ \A sid \in DOMAIN sessions : sessions[sid].inflight <= 1

\* C7: over the life of the process one engine and one session factory are
\* created, the manager always refers to that engine until it is disposed,
\* and once the process has stopped every engine created has been disposed,
\* exactly once.
C7_OneEngineDisposedOnce ==
    /\ Len(engines) <= 1
    /\ \A sid \in DOMAIN sessions : sessions[sid].engine = 1
    /\ \A e \in DOMAIN engines : engines[e].disposed <= 1
    /\ phase = "stopped" => \A e \in DOMAIN engines : engines[e].disposed = 1

(***************************************************************************)
(* The two credit views on a store, both aggregate queries succeeding.     *)
(* Amounts are in thousandths of the currency unit.                        *)
(***************************************************************************)
MaxCreditLoans == 2

\* the three annual_turnover values create_dummy_data draws for a company,
\* one per fiscal year 2020..2022
DummyTurnovers ==
    [FiscalYears -> {50000, 200000}]
        \cup {[y \in FiscalYears |->
                  IF y = <<2, 0, 2, 0>> THEN 100000
                  ELSE IF y = <<2, 0, 2, 1>> THEN 200000 ELSE 50000]}

\* the annual_information rows create_dummy_data writes for one company
DummyAnnualRows(company_id, first_id, draw) ==
    {AnnualInformation(first_id + YearOf(y) - 2020, company_id, y, draw[y]) :
         y \in FiscalYears}

\* loan_amount is any float of the request body: two or three decimals
CreditLoanAmounts == {80000, 80123}
CreditLoanKinds == QueriedIds \X CreditLoanAmounts \X {"DUE", "PAID"}

CreditLoanKey(k) ==
    (IF k[1] = "s1" THEN 0 ELSE IF k[1] = "s2" THEN 4 ELSE 8)
        + (IF k[2] = 80000 THEN 0 ELSE 2)
        + (IF k[3] = "DUE" THEN 0 ELSE 1)

CreditLoanTables ==
    UNION {{{LoanInformation(i, f[i][1], f[i][2], f[i][3], TRUE) : i \in 1..n} :
               f \in {g \in [1..n -> CreditLoanKinds] :
                         \A i \in 1..(n - 1) :
                             CreditLoanKey(g[i]) <= CreditLoanKey(g[i + 1])}} :
           n \in 0..MaxCreditLoans}

\* GET /credits/{company_id}, the whole handler
GetCreditInfoOfACompany ==
    \E c \in QueriedIds :
        LET got == get_company_by_id(companies, c)
        IN  /\ IF ~got.ok
               THEN last' = [op |-> "get_credit_info_of_a_company", input |-> c,
                             result |-> Raised(got.status, "HTTPException")]
               ELSE \E v \in get_company_two_year_turnover(annual, c) :
                        last' = [op |-> "get_credit_info_of_a_company",
                                 input |-> c,
                                 result |-> credit_info_of_a_company(
                                     got.row, c, TaskValue(v),
                                     TaskValue(get_total_due_loan_amount(loans, c))).resp]
            /\ UNCHANGED <<dbvars, srvvars>>

\* GET /credits, the whole handler
GetCreditInfoOfAllCompany ==
    LET rows == get_all_companies(companies)
        company_ids == IdListOf(rows)
    IN  \E m \in get_two_year_turnover_of_companies(annual, company_ids) :
            /\ last' = [op |-> "get_credit_info_of_all_company", input |-> None,
                        result |-> credit_info_of_all_company(
                            rows, TaskValue(m),
                            TaskValue(get_total_due_amount_of_companies(
                                          loans, company_ids))).resp]
            /\ UNCHANGED <<dbvars, srvvars>>

\* The stores the views are asked on: company s1 seeded by create_dummy_data;
\* a second company absent, or created through POST /company (no annual
\* row), or seeded as s2 and since made inactive; loans of these companies.
InitCredit ==
    /\ ProcessNotStarted
    /\ last = NoCall
    /\ loans \in CreditLoanTables
    /\ \E d1 \in DummyTurnovers, second \in {"absent", "created", "inactive"} :
        /\ companies =
               {SeedCompany("s1", "acme", TRUE)}
                   \cup (IF second = "absent" THEN {}
                         ELSE IF second = "inactive"
                         THEN {SeedCompany("s2", "bolt", FALSE)}
                         ELSE {Company(insert_default_id,
                                       CHOOSE d \in CompanyCreate :
                                           /\ d.name = "bolt"
                                           /\ d.address = "2 Side St"
                                           /\ d.website # None)})
        /\ annual =
               DummyAnnualRows("s1", 1, d1)
                   \cup (IF second = "inactive"
                         THEN DummyAnnualRows("s2", 4,
                                  [y \in FiscalYears |-> 200000])
                         ELSE {})
    /\ \A l \in loans : \E c \in companies : c.id = l.company_id

NextCredit ==
    \/ GetCreditInfoOfACompany
    \/ GetCreditInfoOfAllCompany

SpecCredit == InitCredit /\ [][NextCredit]_vars

(***************************************************************************)
(* Properties of the credit views, checked under SpecCredit.               *)
(***************************************************************************)
\* r is x rounded to 2 places: a whole number of hundredths nearest to x
RoundedTo2Places(r, x) == r % 10 = 0 /\ r - x <= 5 /\ x - r <= 5

\* two-year turnover minus total DUE loan amount, before rounding
CreditOf(company_id) ==
    TwoYearSum(RowsOf(annual, company_id)) - DueTotal(loans, company_id)

\* what GET /credits/{company_id} can report for an active company now
SingleViewValues(company_id) ==
    LET got == get_company_by_id(companies, company_id)
    IN  {credit_info_of_a_company(
             got.row, company_id, TaskValue(v),
             TaskValue(get_total_due_loan_amount(loans, company_id))
         ).resp.data.credit_information :
             v \in get_company_two_year_turnover(annual, company_id)}

\* C11: with both aggregate queries succeeding, GET /credits/{company_id}
\* reports for an active company, and GET /credits reports in the entry of
\* every company, the company's two-year turnover minus its total DUE loan
\* amount rounded to 2 places (no turnover or no DUE loan counting as 0, a
\* negative result reported as such); turnovers 2020=100, 2021=200, 2022=50
\* with one DUE loan of 80 give 170.00; and the entry GET /credits has for an
\* active company is the value GET /credits/{company_id} reports for it in
\* the same state.
C11_CreditInformation ==
    /\ (last.op = "get_credit_info_of_a_company" /\ last.result.status = 200) =>
        /\ last.result.data.company_id = last.input
        /\ RoundedTo2Places(last.result.data.credit_information,
                            CreditOf(last.input))
        /\ ({r.annual_turnover : r \in RowsOf(annual, last.input)}
                = {100000, 200000, 50000}
            /\ {r.loan_amount : r \in DueLoansOf(loans, last.input)} = {80000}
            /\ Cardinality(DueLoansOf(loans, last.input)) = 1)
              => last.result.data.credit_information = 170000
    /\ last.op = "get_credit_info_of_all_company" =>
        /\ last.result.status = 200
        /\ {e.company_id : e \in last.result.data} = {c.id : c \in companies}
        /\ Cardinality(last.result.data) = Cardinality(companies)
        /\ \A e \in last.result.data :
            /\ RoundedTo2Places(e.credit_information, CreditOf(e.company_id))
            /\ get_company_by_id(companies, e.company_id).ok =>
                   SingleViewValues(e.company_id) = {e.credit_information}

\* C11 witness: GET /credits has answered for two companies: the seeded one
\* with turnovers 100, 200, 50 and DUE loans of 80.123 in all, reported as
\* 169.88, and one created through the API with no turnover and a DUE loan,
\* reported with a negative value.
C11_Witness ==
    /\ last.op = "get_credit_info_of_all_company"
    /\ \E e \in last.result.data :
        /\ e.company_id = "s1"
        /\ CreditOf("s1") = 169877
        /\ e.credit_information = 169880
    /\ \E e \in last.result.data :
        /\ e.company_id = insert_default_id
        /\ RowsOf(annual, insert_default_id) = {}
        /\ e.credit_information < 0

(***************************************************************************)
(* The loan writes: app/crud/credit.py and the POST, PUT and DELETE        *)
(* handlers of app/api/routes/credit.py, each handler one step.            *)
(***************************************************************************)
MaxStoredLoans == 2

\* datetime.now() at the time of a call, later than the import
Now == <<2024, 6, 1>>

LoanIds == 1..(MaxStoredLoans + 1)

\* LoanInformationCreate: the validated body of POST /credits
LoanInformationCreate ==
    [loan_amount : {80}, taken_on : {<<2021, 7, 1>>},
     bank_provider : {"First Bank"}, loan_status : {"DUE"},
     company_id : CompanyIds]

\* LoanInformationUpdate: the validated body of PUT /credits/{company_id}
LoanInformationUpdate ==
    [loan_amount : {120}, taken_on : {<<2022, 2, 2>>},
     bank_provider : {"Second Bank"}, loan_status : {"PAID"},
     id : LoanIds]

LoanBadRequest ==
    [ok |-> FALSE, status |-> 400, detail |-> "Loan does not exist in the company"]

\* A mutation of get_company_loan_by_id: the company_id condition is dropped.
get_company_loan_by_id_anyCompany(tbl, company_id, loan_id) ==
    LET found == {r \in tbl : r.id = loan_id}
    IN  IF found = {} THEN LoanBadRequest
        ELSE [ok |-> TRUE, row |-> CHOOSE r \in found : TRUE]

get_company_loan_by_id(tbl, company_id, loan_id) ==
    LET found == {r \in tbl : r.company_id = company_id /\ r.id = loan_id}
    IN  IF found = {} THEN LoanBadRequest
        ELSE [ok |-> TRUE, row |-> CHOOSE r \in found : TRUE]

\* the id the store gives the next loan_information row
NextLoanId(tbl) ==
    IF tbl = {} THEN 1
    ELSE (CHOOSE i \in {r.id : r \in tbl} : \A r \in tbl : r.id <= i) + 1

\* add_loans_of_company: LoanInformation(**loan.model_dump()), committed
add_loans_of_company(tbl, data) ==
    LET db_loans == SetAttrs(LoanInformation(NextLoanId(tbl), data.company_id,
                                             data.loan_amount, data.loan_status,
                                             TRUE), data)
    IN  [table |-> tbl \cup {db_loans},
         result |-> [ok |-> TRUE, data |-> row2dict(db_loans)]]

\* A mutation of update_loan_details_of_company: updated_on is left alone.
update_loan_details_of_company_noRefresh(tbl, company_id, data) ==
    LET got == get_company_loan_by_id(tbl, company_id, data.id)
    IN  IF ~got.ok THEN [table |-> tbl, result |-> got]
        ELSE LET row == SetAttrs(got.row, data)
             IN  [table |-> (tbl \ {got.row}) \cup {row},
                  result |-> [ok |-> TRUE, data |-> row2dict(row)]]

update_loan_details_of_company(tbl, company_id, data) ==
    LET got == get_company_loan_by_id(tbl, company_id, data.id)
    IN  IF ~got.ok THEN [table |-> tbl, result |-> got]
        ELSE LET row == [SetAttrs(got.row, data) EXCEPT !.updated_on = Now]
             IN  [table |-> (tbl \ {got.row}) \cup {row},
                  result |-> [ok |-> TRUE, data |-> row2dict(row)]]

\* A mutation of delete_loan_of_company: the row is deleted from the table.
delete_loan_of_company_hard(tbl, company_id, loan_id) ==
    LET got == get_company_loan_by_id(tbl, company_id, loan_id)
    IN  IF ~got.ok THEN [table |-> tbl, result |-> got]
        ELSE [table |-> tbl \ {got.row}, result |-> [ok |-> TRUE]]

delete_loan_of_company(tbl, company_id, loan_id) ==
    LET got == get_company_loan_by_id(tbl, company_id, loan_id)
    IN  IF ~got.ok THEN [table |-> tbl, result |-> got]
        ELSE LET row == [got.row EXCEPT !.active = FALSE, !.updated_on = Now]
             IN  [table |-> (tbl \ {got.row}) \cup {row},
                  result |-> [ok |-> TRUE]]

\* POST /credits
AddCreditInfoForACompany ==
    \E loan \in LoanInformationCreate :
        LET got == get_company_by_id(companies, loan.company_id)
            r == IF got.ok THEN add_loans_of_company(loans, loan)
                 ELSE [table |-> loans, result |-> got]
        IN  /\ got.ok => Cardinality(loans) < MaxStoredLoans
            /\ loans' = r.table
            /\ last' = [op |-> "add_credit_info_for_a_company",
                        input |-> loan, result |-> r.result]
            /\ UNCHANGED <<companies, annual, srvvars>>

\* PUT /credits/{company_id}
UpdateCreditInfo ==
    \E company_id \in CompanyIds, loan \in LoanInformationUpdate :
        LET got == get_company_by_id(companies, company_id)
            r == IF got.ok
                 THEN update_loan_details_of_company(loans, company_id, loan)
                 ELSE [table |-> loans, result |-> got]
        IN  /\ loans' = r.table
            /\ last' = [op |-> "update_credit_info",
                        input |-> [company_id |-> company_id, loan |-> loan],
                        result |-> r.result]
            /\ UNCHANGED <<companies, annual, srvvars>>

\* DELETE /credits/{loan_id}?company_id=...
DeleteLoanOfCompany ==
    \E company_id \in CompanyIds, loan_id \in LoanIds :
        LET got == get_company_by_id(companies, company_id)
            r == IF got.ok
                 THEN delete_loan_of_company(loans, company_id, loan_id)
                 ELSE [table |-> loans, result |-> got]
        IN  /\ loans' = r.table
            /\ last' = [op |-> "delete_loan_of_company",
                        input |-> [company_id |-> company_id,
                                   loan_id |-> loan_id],
                        result |-> r.result]
            /\ UNCHANGED <<companies, annual, srvvars>>

GetCompanyLoanById ==
    \E company_id \in CompanyIds, loan_id \in LoanIds :
        /\ last' = [op |-> "get_company_loan_by_id",
                    input |-> [company_id |-> company_id, loan_id |-> loan_id],
                    result |-> get_company_loan_by_id(loans, company_id, loan_id)]
        /\ UNCHANGED <<dbvars, srvvars>>

\* Two stored companies, the second active or soft-deleted, and no loan yet.
InitLoan ==
    /\ ProcessNotStarted
    /\ \E second \in BOOLEAN :
           companies = {SeedCompany("s1", "acme", TRUE),
                        SeedCompany("s2", "bolt", second)}
    /\ annual = {}
    /\ loans = {}
    /\ last = NoCall

NextLoan ==
    \/ AddCreditInfoForACompany
    \/ UpdateCreditInfo
    \/ DeleteLoanOfCompany
    \/ GetCompanyLoanById

SpecLoan == InitLoan /\ [][NextLoan]_vars

(***************************************************************************)
(* Properties of the loan writes, checked under SpecLoan.                  *)
(***************************************************************************)
\* C13: when delete_loan_of_company(company_id, loan_id) has succeeded, the
\* loan's row is still stored, with active = false and every field other
\* than active and updated_on as before, and get_company_loan_by_id of the
\* same ids returns it; and no step of the API removes a stored loan row.
C13_LoanDeleteIsSoft ==
    [][/\ (last'.op = "delete_loan_of_company" /\ last'.result.ok) =>
            \E old \in loans, new \in loans' :
                /\ old.id = last'.input.loan_id
                /\ old.company_id = last'.input.company_id
                /\ new.id = old.id
                /\ new.active = FALSE
                /\ \A f \in DOMAIN old \ {"active", "updated_on"} :
                       new[f] = old[f]
                /\ get_company_loan_by_id(loans', last'.input.company_id,
                                          last'.input.loan_id)
                       = [ok |-> TRUE, row |-> new]
       /\ \A r \in loans : \E r2 \in loans' : r2.id = r.id
       /\ Cardinality(loans') >= Cardinality(loans)]_vars

\* C13 witness: a loan that had been updated has just been deleted: it is
\* stored inactive next to another loan.
C13_Witness ==
    /\ last.op = "delete_loan_of_company"
    /\ last.result.ok
    /\ Cardinality(loans) = 2
    /\ \E r \in loans :
        /\ r.id = last.input.loan_id
        /\ r.active = FALSE
        /\ r.loan_status = "PAID"

ActiveCompany(company_id) == get_company_by_id(companies, company_id).ok

LoanOf(company_id, loan_id) ==
    \E r \in loans : r.id = loan_id /\ r.company_id = company_id

\* C15: PUT /credits/{company_id} and DELETE /credits/{loan_id} fail with
\* 404 when company_id has no active company and with 400 when no loan of
\* the given id belongs to company_id; POST /credits fails with 404 when
\* its company_id has no active company; a failed call leaves every loan
\* and company row as it was; and a loan row changes only in a PUT or
\* DELETE that names its own company_id and its id, a row is added only by
\* a POST, for the company of its body.
C15_LoanWritesAreScoped ==
    [][/\ last'.op = "update_credit_info" =>
            /\ ~ActiveCompany(last'.input.company_id) => last'.result = NotFound
            /\ (/\ ActiveCompany(last'.input.company_id)
                /\ ~LoanOf(last'.input.company_id, last'.input.loan.id))
                  => last'.result = LoanBadRequest
       /\ last'.op = "delete_loan_of_company" =>
            /\ ~ActiveCompany(last'.input.company_id) => last'.result = NotFound
            /\ (/\ ActiveCompany(last'.input.company_id)
                /\ ~LoanOf(last'.input.company_id, last'.input.loan_id))
                  => last'.result = LoanBadRequest
       /\ (/\ last'.op = "add_credit_info_for_a_company"
           /\ ~ActiveCompany(last'.input.company_id))
             => last'.result = NotFound
       /\ (last'.op # "none" /\ ~last'.result.ok) =>
            loans' = loans /\ companies' = companies
       /\ \A r \in loans \ loans' :
            /\ last'.op \in {"update_credit_info", "delete_loan_of_company"}
            /\ last'.input.company_id = r.company_id
            /\ ActiveCompany(r.company_id)
            /\ r.id = IF last'.op = "update_credit_info"
                      THEN last'.input.loan.id ELSE last'.input.loan_id
       /\ \A r \in loans' \ loans :
            \/ \E old \in loans \ loans' :
                   old.id = r.id /\ old.company_id = r.company_id
            \/ /\ last'.op = "add_credit_info_for_a_company"
               /\ r.company_id = last'.input.company_id
               /\ \A old \in loans : old.id # r.id]_vars

\* C15 witness: a PUT for an active company has just failed with 400 on the
\* id of a loan that belongs to another company.
C15_Witness ==
    /\ last.op = "update_credit_info"
    /\ last.result = LoanBadRequest
    /\ \E r \in loans :
        /\ r.id = last.input.loan.id
        /\ r.company_id # last.input.company_id
        /\ r.loan_status = "DUE"

(***************************************************************************)
(* The two updates, PUT /company/{company_id} and PUT /credits/{company_id}*)
(* on a store of two active companies with a loan each, the second loan    *)
(* soft-deleted.                                                           *)
(***************************************************************************)
InitUpdate ==
    /\ ProcessNotStarted
    /\ companies = {SeedCompany("s1", "acme", TRUE),
                    SeedCompany("s2", "bolt", TRUE)}
    /\ annual = {}
    /\ loans = {LoanInformation(1, "s1", 80, "DUE", TRUE),
                LoanInformation(2, "s2", 80, "DUE", FALSE)}
    /\ last = NoCall

NextUpdate ==
    \/ UpdateCompanyDetails
    \/ UpdateCreditInfo

SpecUpdate == InitUpdate /\ [][NextUpdate]_vars

(***************************************************************************)
(* Properties of the updates, checked under SpecUpdate.                    *)
(***************************************************************************)
\* a successful update_company_details changed the row `old` into `new`:
\* the payload's fields set, the other fields and all other rows untouched
CompanyUpdated(old, new, data) ==
    /\ new.id = old.id
    /\ \A f \in DOMAIN data : new[f] = data[f]
    /\ \A f \in {"id", "active", "created_on", "updated_on"} : new[f] = old[f]
    /\ companies' \ {new} = companies \ {old}
    /\ loans' = loans

\* a successful update_loan_details_of_company changed the row `old` into
\* `new`, the fields in `kept` and all other rows untouched
LoanUpdated(old, new, data, kept) ==
    /\ new.id = old.id
    /\ \A f \in DOMAIN data : new[f] = data[f]
    /\ \A f \in kept : new[f] = old[f]
    /\ loans' \ {new} = loans \ {old}
    /\ companies' = companies

UpdateFrame(loanKept) ==
    /\ (last'.op = "update_company_details" /\ last'.result.ok) =>
           \E old \in companies, new \in companies' :
               old.id = last'.id /\ CompanyUpdated(old, new, last'.input)
    /\ (last'.op = "update_credit_info" /\ last'.result.ok) =>
           \E old \in loans, new \in loans' :
               /\ old.id = last'.input.loan.id
               /\ old.company_id = last'.input.company_id
               /\ LoanUpdated(old, new, last'.input.loan, loanKept)

\* C14 as claimed: a successful update sets every field of the payload on
\* the targeted row and leaves untouched its other fields (company: id,
\* active, created_on, updated_on; loan: company_id, active, created_on,
\* updated_on) and every other company and loan row.
C14_UpdateFrame ==
    [][UpdateFrame({"company_id", "active", "created_on", "updated_on"})]_vars

\* C14 as it holds: the same, except that a loan's updated_on is not left
\* untouched: update_loan_details_of_company sets it to the time of the
\* call.
C14_UpdateFrameWithRefresh ==
    [][/\ UpdateFrame({"company_id", "active", "created_on"})
       /\ (last'.op = "update_credit_info" /\ last'.result.ok) =>
              \A r \in loans' : r.id = last'.input.loan.id => r.updated_on = Now
      ]_vars

\* C14 witness: the soft-deleted loan has just been updated, after a company
\* had been updated: the loan bears the payload's values, is still inactive
\* and has a new updated_on, and the other loan is as it was stored.
C14_Witness ==
    /\ last.op = "update_credit_info"
    /\ last.result.ok
    /\ \E r \in loans :
        /\ r.id = last.input.loan.id
        /\ r.active = FALSE
        /\ r.loan_status = "PAID"
        /\ r.created_on = ImportDate
        /\ r.updated_on = Now
    /\ LoanInformation(1, "s1", 80, "DUE", TRUE) \in loans
    /\ \E c \in companies : c.address = "2 Side St" /\ c.updated_on = ImportDate

====
